---------------------------- MODULE Spec2Model ----------------------------
(***************************************************************************)
(* LinkUp: a Flask / peewee / SQLite social network.                       *)
(*                                                                         *)
(* The state is the three tables of public.db (user, relationship, post),  *)
(* the wall clock that stamps posts, the browser's login session, the      *)
(* register requests that passed form validation and have not yet reached  *)
(* the INSERT, and the response of the last finished request.              *)
(* There is one action per route of app.py.  /register is two steps,       *)
(* because the server handles requests concurrently and the form's         *)
(* existence check and the INSERT are two separate statements.             *)
(***************************************************************************)
EXTENDS Integers, Sequences, FiniteSets, Bags, TLC

(***************************************************************************)
(* Bounds of the model.                                                    *)
(***************************************************************************)
MaxUsers == 3
MaxPosts == 2
MaxEdges == 2
MaxClock == 1
MaxPending == 2
BulkPosts == 99

(***************************************************************************)
(* Program constants.                                                      *)
(***************************************************************************)
StreamLimit == 100
MinPasswordLen == 2

VARIABLES users, relationships, posts, clock, session, pending, resp

vars == <<users, relationships, posts, clock, session, pending, resp>>

db == <<users, relationships, posts>>

(***************************************************************************)
(* Text.  Usernames, URL parameters and post contents are sequences of     *)
(* characters; emails and passwords are atoms.                             *)
(***************************************************************************)
Letters == {"a", "b", "h", "i", "A", "B"}
NameChars == Letters \cup {"_"}
Whitespace == {" ", "\t", "\n"}
None == <<"<none>">>

Lower(c) == IF c = "A" THEN "a" ELSE IF c = "B" THEN "b" ELSE c

TestUserName == <<"t", "e", "s", "t", "u", "s", "e", "r">>
TestUserEmail == "test@example.com"
TestUserPassword == "password"

\* what a register form can carry
RegNames == {<<"a", "b">>, <<"A", "_">>}
RegEmails == {"a@x.io", "b@x.io"}
BadNames == {<<"a", " ">>, <<" ">>, <<>>}
BadEmails == {"nomail", ""}
BadPasswords == {"p", ""}
\* what a login form can carry
LoginEmails == {TestUserEmail, "a@x.io", "b@x.io", "nomail", ""}
LoginPasswords == {TestUserPassword, "pw", ""}
\* what a /follow, /unfollow or /stream URL can carry
ReqNames == {<<"a", "b">>, <<"A", "B">>, <<"A", "_">>, <<"b">>, TestUserName}
\* what a post form can carry
PostInputs == {<<>>, <<" ", "\n">>, <<"h", " ", "i">>, <<" ", "h", " ", "i", "\t">>}

WellFormedEmails == {TestUserEmail, "a@x.io", "b@x.io"}


(***************************************************************************)
(* Library functions the handlers call, by what they do.                   *)
(***************************************************************************)
\* flask_bcrypt: the stored credential is a hash, never the plaintext
generate_password_hash(p) == <<"bcrypt", p>>

check_password_hash(h, p) == h = generate_password_hash(p)

\* str.strip()
RECURSIVE LStrip(_)
LStrip(s) == IF s # <<>> /\ Head(s) \in Whitespace THEN LStrip(Tail(s)) ELSE s

RECURSIVE RStrip(_)
RStrip(s) ==
    IF s # <<>> /\ s[Len(s)] \in Whitespace
    THEN RStrip(SubSeq(s, 1, Len(s) - 1))
    ELSE s

Strip(s) == RStrip(LStrip(s))

\* wtforms DataRequired on a text field: the data is truthy and not all blank
DataRequiredText(s) == s # <<>> /\ Strip(s) # <<>>

\* wtforms DataRequired on an atom-valued field
DataRequired(a) == a # ""

\* wtforms Email()
Email(e) == e \in WellFormedEmails

\* wtforms Regexp(r'^[a-zA-Z0-9_]+$'); Python's $ also matches before a final newline
UsernameRegexp(s) ==
    LET body == IF s # <<>> /\ s[Len(s)] = "\n" THEN SubSeq(s, 1, Len(s) - 1) ELSE s
    IN  body # <<>> /\ \A i \in 1..Len(body) : body[i] \in NameChars

\* peewee's ** on SQLite is LIKE: % is any run, _ is any one character,
\* every other character compares without regard to ASCII case
RECURSIVE LikeMatch(_, _)
LikeMatch(p, s) ==
    IF p = <<>> THEN s = <<>>
    ELSE IF Head(p) = "%"
         THEN LikeMatch(Tail(p), s) \/ (s # <<>> /\ LikeMatch(p, Tail(s)))
         ELSE /\ s # <<>>
              /\ (Head(p) = "_" \/ Lower(Head(p)) = Lower(Head(s)))
              /\ LikeMatch(Tail(p), Tail(s))

(***************************************************************************)
(* The tables.  A user's id is its position in users, a post's id its      *)
(* position in posts.  relationships is a bag of rows: the rowid of a      *)
(* relationship is never read.                                             *)
(***************************************************************************)
UserIds == 1..Len(users)

PostIds == 1..Len(posts)

Edge(a, b) == [from_user |-> a, to_user |-> b]

HasEdge(a, b) == BagIn(Edge(a, b), relationships)

\* User.following
following(a) == {b \in UserIds : HasEdge(a, b)}

\* User.followers
followers(b) == {a \in UserIds : HasEdge(a, b)}

\* User.select().where(User.username == name).exists()
name_exists(name) == \E u \in UserIds : users[u].username = name

\* User.select().where(User.email == email).exists()
email_exists(email) == \E u \in UserIds : users[u].email = email

\* the unique indexes of user.username and user.email
UserUniqueViolated(name, email) ==
    \E u \in UserIds : users[u].username = name \/ users[u].email = email

\* the unique index of relationship (from_user, to_user)
RelationshipUniqueViolated(a, b) == HasEdge(a, b)

\* User.get(User.username ** name): the rows the LIKE matches; get() takes
\* the first the engine yields, and the statement has no ORDER BY
UsersLike(name) == {u \in UserIds : LikeMatch(name, users[u].username)}

\* User.get(User.email == email)
UsersByEmail(email) == {u \in UserIds : users[u].email = email}

(***************************************************************************)
(* Post queries.  No query of app.py calls order_by().  Post.Meta.order_by *)
(* is an option of the peewee 2 API; the models are written against the    *)
(* peewee 3 API (ForeignKeyField(backref=...), user.posts), where unknown  *)
(* Meta options are stored and never read, so the SELECT statements carry  *)
(* no ORDER BY clause.  The rows then come in the order of the access path *)
(* the engine scans: the table by rowid, the table by rowid backwards, or  *)
(* the index of post.user_id.  LIMIT keeps the first rows of that order.   *)
(***************************************************************************)
AccessPaths == {"rowid", "rowid_desc", "user_idx"}

Min(a, b) == IF a <= b THEN a ELSE b

Reverse(s) == [i \in 1..Len(s) |-> s[Len(s) + 1 - i]]

ByRowid(S) == SelectSeq([i \in 1..Len(posts) |-> i], LAMBDA i : i \in S)

RECURSIVE ByUserFrom(_, _)
ByUserFrom(S, u) ==
    IF u > Len(users) THEN <<>>
    ELSE ByRowid({i \in S : posts[i].user = u}) \o ByUserFrom(S, u + 1)

Rows(S, path) ==
    CASE path = "rowid" -> ByRowid(S)
      [] path = "rowid_desc" -> Reverse(ByRowid(S))
      [] path = "user_idx" -> ByUserFrom(S, 1)

\* query.limit(n)
Limit(s, n) == SubSeq(s, 1, Min(Len(s), n))

\* Post.select()
AllPosts == PostIds

\* user.posts, User.get_posts
get_posts(u) == {i \in PostIds : posts[i].user = u}

\* get_stream without its second disjunct, (Post.user == self)
get_stream_FollowedOnly(u) == {i \in PostIds : posts[i].user \in following(u)}

\* User.get_stream
get_stream(u) ==
    {i \in PostIds : posts[i].user \in following(u) \/ posts[i].user = u}

\* what query.limit(100) can hand to the template
StreamRows(S) == {Limit(Rows(S, path), StreamLimit) : path \in AccessPaths}

(***************************************************************************)
(* Responses.                                                              *)
(***************************************************************************)
\* op and arg echo the request (the route and its <username>); status, flash,
\* stream and user are what the handler answers: the kind of response, the
\* message it flashes, the rows it renders and the account it names
Resp(op, arg, status, flash, stream, user) ==
    [op |-> op, arg |-> arg, status |-> status, flash |-> flash,
     stream |-> stream, user |-> user]

FlashRegistered == "You registered successfully."
FlashMismatch == "Your email or password does not match."
\* login(): the message when the email resolves to no account, and the
\* message when the stored hash does not match
LoginMissFlash_Distinct == "No account has that email."
LoginMissFlash == FlashMismatch
LoginWrongPasswordFlash == FlashMismatch
FlashLogin == "Login successful!"
FlashLogout == "Logout successful"
FlashPosted == "Message posted successfully"
FlashPleaseLogin == "Please log in to access this page."

\* flask_login.login_required, login_manager.login_view = 'login'
Unauthorized(op) == Resp(op, None, "login_redirect", FlashPleaseLogin, <<>>, 0)

TypeOK ==
    /\ Len(users) \in 1..(MaxUsers + 1)
    /\ IsABag(relationships)
    /\ clock \in Nat
    /\ session \in 0..Len(users)
    /\ IsABag(pending)
    /\ resp.status \in {"none", "render", "redirect", "login_redirect", "404", "500"}

(***************************************************************************)
(* Construction: models.initialize() and the testuser of __main__.         *)
(***************************************************************************)
TestUser ==
    [username |-> TestUserName, email |-> TestUserEmail,
     password |-> generate_password_hash(TestUserPassword), is_admin |-> TRUE]

\* the state of a fresh public.db when app.run() starts
InitAccounts ==
    /\ users = <<TestUser>>
    /\ relationships = EmptyBag
    /\ posts = <<>>
    /\ clock = 0
    /\ session = 0
    /\ pending = EmptyBag
    /\ resp = Resp("none", None, "none", "", <<>>, 0)

(***************************************************************************)
(* /register                                                               *)
(***************************************************************************)
\* RegisterForm: form.validate_on_submit()
RegisterFormValid(f) ==
    /\ DataRequiredText(f.username)
    /\ UsernameRegexp(f.username)
    /\ ~name_exists(f.username)
    /\ DataRequired(f.email)
    /\ Email(f.email)
    /\ ~email_exists(f.email)
    /\ DataRequired(f.password)
    /\ Len(f.password) >= MinPasswordLen
    /\ f.password = f.password2
    /\ DataRequired(f.password2)

\* email = CharField() without unique=True
UserInsertOK_UsernameOnly(name, email) == ~name_exists(name)

\* User.create_user: the INSERT inside the transaction succeeds
UserInsertOK(name, email) == ~UserUniqueViolated(name, email)

\* register(), up to the end of form validation
RegisterValidate(f) ==
    IF RegisterFormValid(f)
    THEN /\ BagCardinality(pending) < MaxPending
         /\ pending' = pending (+) SetToBag(
                {[username |-> f.username, email |-> f.email, password |-> f.password]})
         /\ UNCHANGED <<users, relationships, posts, clock, session, resp>>
    ELSE /\ resp' = Resp("register", None, "render", "", <<>>, 0)
         /\ UNCHANGED <<users, relationships, posts, clock, session, pending>>

\* register(), from flash() to the return: create_user raises ValueError on
\* IntegrityError and register() has no handler for it
RegisterCreate(f) ==
    /\ BagIn(f, pending)
    /\ pending' = pending (-) SetToBag({f})
    /\ IF UserInsertOK(f.username, f.email)
       THEN /\ Len(users) < MaxUsers
            /\ users' = Append(users,
                   [username |-> f.username, email |-> f.email,
                    password |-> generate_password_hash(f.password),
                    is_admin |-> FALSE])
            /\ resp' = Resp("register", None, "redirect", FlashRegistered, <<>>, Len(users) + 1)
       ELSE /\ users' = users
            /\ resp' = Resp("register", None, "500", FlashRegistered, <<>>, 0)
    /\ UNCHANGED <<relationships, posts, clock, session>>

(***************************************************************************)
(* /login, /logout                                                         *)
(***************************************************************************)
LoginFormValid(email, password) ==
    DataRequired(email) /\ Email(email) /\ DataRequired(password)

Login(email, password) ==
    /\ IF ~LoginFormValid(email, password)
       THEN /\ resp' = Resp("login", None, "render", "", <<>>, 0)
            /\ session' = session
       ELSE IF UsersByEmail(email) = {}
       THEN /\ resp' = Resp("login", None, "render", LoginMissFlash, <<>>, 0)
            /\ session' = session
       ELSE \E u \in UsersByEmail(email) :
              IF check_password_hash(users[u].password, password)
              THEN /\ session' = u
                   /\ resp' = Resp("login", None, "redirect", FlashLogin, <<>>, u)
              ELSE /\ session' = session
                   /\ resp' = Resp("login", None, "render", LoginWrongPasswordFlash, <<>>, 0)
    /\ UNCHANGED <<users, relationships, posts, clock, pending>>

Logout ==
    /\ IF session = 0
       THEN /\ resp' = Unauthorized("logout")
            /\ session' = session
       ELSE /\ session' = 0
            /\ resp' = Resp("logout", None, "redirect", FlashLogout, <<>>, 0)
    /\ UNCHANGED <<users, relationships, posts, clock, pending>>

(***************************************************************************)
(* /new_post                                                               *)
(***************************************************************************)
\* PostForm: content = TextAreaField(validators=[DataRequired()])
PostFormValid(c) == DataRequiredText(c)

\* content=form.content.data
PostContent_Unstripped(c) == c

\* content=form.content.data.strip()
PostContent(c) == Strip(c)

\* room left in the model for one more post, a later clock reading
PostRoom ==
    \/ Len(posts) < MaxPosts
    \/ (BulkPosts <= Len(posts) /\ Len(posts) < BulkPosts + MaxPosts)

ClockRoom ==
    \/ clock < MaxClock
    \/ (BulkPosts <= clock /\ clock < BulkPosts + MaxClock)

\* timestamp = DateTimeField(default=datetime.datetime.now): the reading is the
\* last one again (two posts within one clock step) or a later one
Now == {clock} \cup (IF ClockRoom THEN {clock + 1} ELSE {})

post(c) ==
    /\ IF session = 0
       THEN /\ resp' = Unauthorized("post")
            /\ UNCHANGED <<posts, clock>>
       ELSE IF ~PostFormValid(c)
       THEN /\ resp' = Resp("post", None, "render", "", <<>>, 0)
            /\ UNCHANGED <<posts, clock>>
       ELSE /\ PostRoom
            /\ \E now \in Now :
                 /\ clock' = now
                 /\ posts' = Append(posts,
                        [user |-> session, content |-> PostContent(c), timestamp |-> now])
            /\ resp' = Resp("post", None, "redirect", FlashPosted, <<>>, 0)
    /\ UNCHANGED <<users, relationships, session, pending>>

(***************************************************************************)
(* /, /stream, /stream/<username>, /post/<id>                              *)
(***************************************************************************)
index ==
    /\ \E s \in StreamRows(AllPosts) : resp' = Resp("index", None, "render", "", s, 0)
    /\ UNCHANGED <<users, relationships, posts, clock, session, pending>>

\* the branch of stream() that shows get_stream(): no username, or the viewer's own
OwnStream(name) == name = None \/ name = users[session].username

\* current_user is flask_login's AnonymousUserMixin when nobody is logged in:
\* it has neither username nor get_stream, and stream() reads one of them
stream(name) ==
    /\ IF session = 0
       THEN resp' = Resp("stream", name, "500", "", <<>>, 0)
       ELSE IF ~OwnStream(name)
       THEN IF UsersLike(name) = {}
            THEN resp' = Resp("stream", name, "404", "", <<>>, 0)
            ELSE \E u \in UsersLike(name) : \E s \in StreamRows(get_posts(u)) :
                     resp' = Resp("stream", name, "render", "", s, u)
       ELSE \E s \in StreamRows(get_stream(session)) :
                resp' = Resp("stream", name, "render", "", s, session)
    /\ UNCHANGED <<users, relationships, posts, clock, session, pending>>

view_post(post_id) ==
    /\ IF post_id \notin PostIds
       THEN resp' = Resp("view_post", None, "404", "", <<>>, 0)
       ELSE resp' = Resp("view_post", None, "render", "", <<post_id>>, 0)
    /\ UNCHANGED <<users, relationships, posts, clock, session, pending>>

(***************************************************************************)
(* /follow/<username>, /unfollow/<username>                                *)
(***************************************************************************)
\* the index of (from_user, to_user) declared without True
RelationshipInsertOK_NotUnique(a, b) == TRUE

\* Relationship.create: the INSERT passes the unique index
RelationshipInsertOK(a, b) == ~RelationshipUniqueViolated(a, b)

\* Relationship.get(from_user=a, to_user=b) finds a row
RelationshipFound(a, b) == HasEdge(a, b)

follow(name) ==
    /\ IF session = 0
       THEN /\ resp' = Unauthorized("follow")
            /\ relationships' = relationships
       ELSE IF UsersLike(name) = {}
       THEN /\ resp' = Resp("follow", name, "404", "", <<>>, 0)
            /\ relationships' = relationships
       ELSE \E to_user \in UsersLike(name) :
              IF RelationshipInsertOK(session, to_user)
              THEN /\ BagCardinality(relationships) < MaxEdges
                   /\ relationships' =
                          relationships (+) SetToBag({Edge(session, to_user)})
                   /\ resp' = Resp("follow", name, "redirect", "Now following", <<>>, to_user)
              ELSE /\ relationships' = relationships
                   /\ resp' = Resp("follow", name, "redirect", "", <<>>, to_user)
    /\ UNCHANGED <<users, posts, clock, session, pending>>

\* Relationship.get raises DoesNotExist when there is no row; unfollow()
\* handles IntegrityError only
unfollow(name) ==
    /\ IF session = 0
       THEN /\ resp' = Unauthorized("unfollow")
            /\ relationships' = relationships
       ELSE IF UsersLike(name) = {}
       THEN /\ resp' = Resp("unfollow", name, "404", "", <<>>, 0)
            /\ relationships' = relationships
       ELSE \E to_user \in UsersLike(name) :
              IF RelationshipFound(session, to_user)
              THEN /\ relationships' =
                          relationships (-) SetToBag({Edge(session, to_user)})
                   /\ resp' = Resp("unfollow", name, "redirect", "No longer following", <<>>, to_user)
              ELSE /\ relationships' = relationships
                   /\ resp' = Resp("unfollow", name, "500", "", <<>>, to_user)
    /\ UNCHANGED <<users, posts, clock, session, pending>>

(***************************************************************************)
(* The program.                                                            *)
(***************************************************************************)
\* well-formed forms, and one form per validator that can reject
RegisterForms ==
    [username : RegNames, email : RegEmails, password : {"pw"}, password2 : {"pw"}]
    \cup [username : BadNames, email : {"a@x.io"}, password : {"pw"}, password2 : {"pw"}]
    \cup [username : {<<"a", "b">>}, email : BadEmails, password : {"pw"}, password2 : {"pw"}]
    \cup [username : {<<"a", "b">>}, email : {"a@x.io"}, password : BadPasswords, password2 : BadPasswords]
    \cup [username : {<<"a", "b">>}, email : {"a@x.io"}, password : {"pw"}, password2 : {"p", ""}]

\* registration and login, from a fresh database
NextAccounts ==
    \/ \E f \in RegisterForms : RegisterValidate(f)
    \/ \E f \in BagToSet(pending) : RegisterCreate(f)
    \/ \E e \in LoginEmails, p \in LoginPasswords : Login(e, p)
    \/ Logout

SpecAccounts == InitAccounts /\ [][NextAccounts]_vars

\* public.db is kept from one run of the server to the next.  The posting
\* and following routes are explored from a database that holds the
\* accounts two earlier registrations left (a state SpecAccounts reaches).
Registered(name, email) ==
    [username |-> name, email |-> email,
     password |-> generate_password_hash("pw"), is_admin |-> FALSE]

Accounts == <<TestUser, Registered(<<"a", "b">>, "a@x.io"), Registered(<<"A", "_">>, "b@x.io")>>

Init ==
    /\ users = Accounts
    /\ relationships = EmptyBag
    /\ posts = <<>>
    /\ clock = 0
    /\ session = 0
    /\ pending = EmptyBag
    /\ resp = Resp("none", None, "none", "", <<>>, 0)

Next ==
    \/ \E e \in WellFormedEmails, p \in {"pw", TestUserPassword} : Login(e, p)
    \/ Logout
    \/ \E c \in PostInputs : post(c)
    \/ index
    \/ \E n \in ReqNames \cup {None} : stream(n)
    \/ \E i \in 1..(MaxPosts + 1) : view_post(i)
    \/ \E n \in ReqNames : follow(n)
    \/ \E n \in ReqNames : unfollow(n)

Spec == Init /\ [][Next]_vars

(***************************************************************************)
(* The same routes on a database that already holds BulkPosts posts, so    *)
(* that LIMIT 100 cuts: every post is by testuser (owners = 1) or the      *)
(* posts alternate between testuser and the second account (owners = 2),  *)
(* and post i was stamped at clock reading i.                              *)
(***************************************************************************)
BulkContent == <<"h", " ", "i">>

BulkTable(owners) ==
    [i \in 1..BulkPosts |->
        [user |-> (i % owners) + 1, content |-> BulkContent, timestamp |-> i]]

InitCap ==
    /\ users = Accounts
    /\ relationships = EmptyBag
    /\ \E owners \in 1..2 : posts = BulkTable(owners)
    /\ clock = BulkPosts
    /\ session = 0
    /\ pending = EmptyBag
    /\ resp = Resp("none", None, "none", "", <<>>, 0)

NextCap ==
    \/ \E e \in {TestUserEmail, "a@x.io"}, p \in {"pw", TestUserPassword} : Login(e, p)
    \/ \E c \in {BulkContent} : post(c)
    \/ index
    \/ \E n \in {None, <<"a", "b">>, TestUserName} : stream(n)
    \/ \E n \in {<<"a", "b">>} : follow(n)

SpecCap == InitCap /\ [][NextCap]_vars

(***************************************************************************)
(* Vocabulary of the claims, stated from the tables alone.                 *)
(***************************************************************************)
Follows(a, b) == CopiesIn([from_user |-> a, to_user |-> b], relationships) >= 1

OwnedBy(a) == {i \in PostIds : posts[i].user = a}

Visible(a) == {i \in PostIds : posts[i].user = a \/ Follows(a, posts[i].user)}

Range(s) == {s[i] : i \in 1..Len(s)}

\* s lists every element of V exactly once and nothing else
ExactlyOnce(s, V) == Len(s) = Cardinality(V) /\ Range(s) = V

NewestFirst(s) ==
    \A i, j \in 1..Len(s) : i < j => posts[s[i]].timestamp >= posts[s[j]].timestamp

\* s holds min(|V|, 100) distinct posts of V, none of them older than a post left out
TopOf(s, V) ==
    /\ Range(s) \subseteq V
    /\ Len(s) = Cardinality(Range(s))
    /\ Len(s) = Min(Cardinality(V), StreamLimit)
    /\ \A i \in Range(s), j \in V \ Range(s) : posts[i].timestamp >= posts[j].timestamp

\* the response is that of the viewer's own stream
IsPersonal == 
    /\ resp.op = "stream" 
    /\ session # 0 
    /\ (resp.arg = None \/ resp.arg = users[session].username)

(***************************************************************************)
(* C1.  An unfollow request by a logged-in account a that names an account *)
(* b with no edge (a, b) leaves accounts, edges and posts unchanged and    *)
(* ends in the redirect.                                                   *)
(***************************************************************************)
C1_UnfollowAbsentIsNoOp ==
    [][\A n \in ReqNames : \A b \in UserIds :
          (resp'.op = "unfollow" /\ resp'.arg = n /\ resp'.user = b /\ session # 0
             /\ ~Follows(session, b) /\ unfollow(n))
              => (UNCHANGED db /\ resp'.status = "redirect")]_vars

(***************************************************************************)
(* C2.  A follow request by a logged-in account a that resolves to b ends  *)
(* in the redirect and leaves exactly one edge (a, b); when the edge was   *)
(* already there, nothing in the database changes.                         *)
(***************************************************************************)
C2_FollowIdempotent ==
    [][\A n \in ReqNames : \A b \in UserIds :
          (resp'.op = "follow" /\ resp'.arg = n /\ resp'.user = b /\ session # 0 /\ follow(n))
              => /\ resp'.status = "redirect"
                 /\ CopiesIn([from_user |-> session, to_user |-> b], relationships') = 1
                 /\ (Follows(session, b) => UNCHANGED db)]_vars

\* a follow of an edge that already existed was answered
C2_Witness ==
    /\ resp.op = "follow"
    /\ resp.status = "redirect"
    /\ resp.flash = ""
    /\ resp.user # 0
    /\ Follows(session, resp.user)

(***************************************************************************)
(* C3.  While fewer than 100 posts are visible, the viewer's own stream    *)
(* lists each post owned by the viewer or by an account the viewer follows *)
(* exactly once, and no other post.                                        *)
(***************************************************************************)
C3_PersonalStreamIsUnion ==
    (IsPersonal /\ Cardinality(Visible(session)) < StreamLimit)
        => (resp.status = "render" /\ ExactlyOnce(resp.stream, Visible(session)))

\* the stream shows a followed account's post and leaves another account's out
C3_Witness ==
    /\ IsPersonal
    /\ \E i \in Range(resp.stream) : posts[i].user # session
    /\ \E j \in PostIds : j \notin Range(resp.stream)

(***************************************************************************)
(* C4.  The landing page and every stream list their posts newest first.   *)
(***************************************************************************)
C4_NewestFirst ==
    (resp.op \in {"index", "stream"} /\ resp.status = "render") => NewestFirst(resp.stream)

(***************************************************************************)
(* C5.  The landing page and every stream return all visible posts when    *)
(* there are at most 100, and otherwise exactly the 100 with the latest    *)
(* timestamps.                                                             *)
(***************************************************************************)
C5_CapEnforced ==
    /\ (resp.op = "index" /\ resp.status = "render") => TopOf(resp.stream, PostIds)
    /\ (resp.op = "stream" /\ resp.status = "render") =>
           TopOf(resp.stream, IF IsPersonal THEN Visible(session) ELSE OwnedBy(resp.user))

(***************************************************************************)
(* C9.  A post request by a logged-in account with content c stores        *)
(* nothing when c is blank, and otherwise appends exactly one post, owned  *)
(* by that account, whose content is c without its leading and trailing    *)
(* whitespace; every stored content is non-empty and has no whitespace at  *)
(* either end.                                                             *)
(***************************************************************************)
Blank(c) == \A i \in 1..Len(c) : c[i] \in Whitespace

Trimmed(t) == t # <<>> /\ t[1] \notin Whitespace /\ t[Len(t)] \notin Whitespace

\* t is c with only whitespace cut from its two ends
IsTrimOf(t, c) ==
    /\ Trimmed(t)
    /\ \E i, j \in 1..Len(c) :
          /\ t = SubSeq(c, i, j)
          /\ \A k \in 1..Len(c) : (k < i \/ k > j) => c[k] \in Whitespace

C9_PostTrimsOrRejects ==
    [][/\ \A c \in PostInputs :
             (resp'.op = "post" /\ session # 0 /\ post(c)) =>
                 IF Blank(c)
                 THEN posts' = posts /\ resp'.status = "render"
                 ELSE /\ Len(posts') = Len(posts) + 1
                      /\ SubSeq(posts', 1, Len(posts)) = posts
                      /\ posts'[Len(posts')].user = session
                      /\ IsTrimOf(posts'[Len(posts')].content, c)
       /\ \A i \in 1..Len(posts') : Trimmed(posts'[i].content)]_vars

\* a post was stored
C9_Witness ==
    /\ resp.op = "post"
    /\ resp.status = "redirect"
    /\ posts # <<>>
    /\ posts[Len(posts)].content = <<"h", " ", "i">>

AccountsUnique(t) ==
    \A u, v \in 1..Len(t) :
        u # v => (t[u].username # t[v].username /\ t[u].email # t[v].email)

Taken(f) == \E u \in UserIds : users[u].username = f.username \/ users[u].email = f.email

C6_AccountsUnique ==
    [][/\ AccountsUnique(users')
       /\ \A f \in BagToSet(pending) :
             RegisterCreate(f) =>
                 IF Taken(f)
                 THEN users' = users /\ resp'.status # "redirect"
                 ELSE /\ Len(users') = Len(users) + 1
                      /\ SubSeq(users', 1, Len(users)) = users
                      /\ users'[Len(users')].username = f.username
                      /\ users'[Len(users')].email = f.email]_vars

\* of two requests that both passed validation, the later INSERT was refused
C6_Witness ==
    /\ resp.op = "register"
    /\ resp.status = "500"
    /\ Len(users) >= 2
    /\ AccountsUnique(users)

(***************************************************************************)
(* C7.  A register request never ends in an unhandled error, and it        *)
(* flashes the success message only when it ends in the redirect that      *)
(* follows the creation of the account.                                    *)
(***************************************************************************)
C7_DuplicateIsValidationError ==
    resp.op = "register" =>
        /\ resp.status \in {"render", "redirect"}
        /\ (resp.flash = FlashRegistered => (resp.status = "redirect" /\ resp.user \in UserIds))

(***************************************************************************)
(* C8.  A login that does not find an account with the submitted email and *)
(* a matching password leaves the session alone and answers with a         *)
(* response that depends on the submitted form only, so an unknown email   *)
(* and a wrong password are answered alike; any other login binds the      *)
(* session to the account with that email and password.                    *)
(***************************************************************************)
\* what a failed login may show: a function of the form, not of the accounts
FailureResponse(e, p) ==
    [op |-> "login", arg |-> None, status |-> "render",
     flash |-> IF e \in WellFormedEmails /\ p # ""
               THEN "Your email or password does not match."
               ELSE "",
     stream |-> <<>>, user |-> 0]

C8_LoginHidesExistence ==
    [][\A e \in LoginEmails, p \in LoginPasswords :
          Login(e, p) =>
              LET matching == {u \in UserIds : /\ users[u].email = e
                                               /\ users[u].password = <<"bcrypt", p>>}
              IN  IF matching = {}
                  THEN session' = session /\ resp' = FailureResponse(e, p)
                  ELSE /\ session' \in matching
                       /\ resp'.status = "redirect"
                       /\ resp'.user = session']_vars

\* a well-formed login was refused while an account other than testuser exists
C8_Witness ==
    /\ resp.op = "login"
    /\ resp.status = "render"
    /\ resp.flash = "Your email or password does not match."
    /\ Len(users) >= 2
    /\ session = 0

(***************************************************************************)
(* C11.  A follow or unfollow request by a logged-in account a that names  *)
(* username n changes no edge other than (a, the account whose username is *)
(* exactly n); when no account has exactly that username, it ends in       *)
(* not-found and changes no edge.                                          *)
(***************************************************************************)
\* the accounts whose username is n, character for character
NamedExactly(n) == {u \in UserIds : users[u].username = n}

\* the rows whose number of copies the step changes
ChangedEdges ==
    {e \in BagToSet(relationships) \cup BagToSet(relationships') :
        CopiesIn(e, relationships) # CopiesIn(e, relationships')}

C11_ActsOnNamedAccount ==
    [][\A n \in ReqNames :
          (resp'.op \in {"follow", "unfollow"} /\ resp'.arg = n /\ session # 0
             /\ (follow(n) \/ unfollow(n)))
              => IF NamedExactly(n) = {}
                 THEN resp'.status = "404" /\ relationships' = relationships
                 ELSE \A e \in ChangedEdges :
                          e.from_user = session /\ e.to_user \in NamedExactly(n)]_vars

(***************************************************************************)
(* C12.  A stream request by any viewer, logged in or not, that names a    *)
(* username other than the viewer's own ends in not-found when no account  *)
(* has that username, and otherwise renders the posts of the account with  *)
(* that username and no other post; it never ends in an unhandled error.   *)
(***************************************************************************)
C12_OtherStreamIsPublic ==
    (resp.op = "stream" /\ resp.arg # None
       /\ (session = 0 \/ resp.arg # users[session].username))
        => IF NamedExactly(resp.arg) = {}
           THEN resp.status = "404"
           ELSE /\ resp.status = "render"
                /\ resp.user \in NamedExactly(resp.arg)
                /\ Range(resp.stream) \subseteq OwnedBy(resp.user)
                /\ Cardinality(OwnedBy(resp.user)) < StreamLimit
                       => ExactlyOnce(resp.stream, OwnedBy(resp.user))

=============================================================================
